---- MODULE Spec2Model ----
(***************************************************************************)
(* Developer Tools API (StackFast): the DeveloperTool table, its JSON      *)
(* conversions and the /tools request handlers, as a state machine.        *)
(*                                                                         *)
(* Values are tagged records, so that None, numbers, text and lists can be *)
(* compared with each other as Python and SQL compare them.  A text is a   *)
(* sequence of one-character strings.                                      *)
(***************************************************************************)
EXTENDS Integers, Sequences, FiniteSets, TLC

VARIABLES
    store,   \* the developer_tools table: id -> row
    clock,   \* the database's current_timestamp()
    last,    \* the last completed single-record request and its outcome
    deleted, \* history: the ids whose DELETE returned 204
    pc,      \* per worker: the request it is handling and where it stands
    resp     \* the body of the last list / search response

vars == <<store, clock, last, deleted, pc, resp>>

----------------------------------------------------------------------------
(* Bounds of the model *)

MaxId == 2       \* ids handed out are capped at MaxId
MaxClock == 1    \* the clock stops ticking at MaxClock
MaxRows == 12    \* the largest table the list specification starts from
MaxScoreInput == 12  \* score cells hold the integers of -MaxScoreInput..MaxScoreInput

----------------------------------------------------------------------------
(* Values *)

Null == [t |-> "null"]
IntV(n) == [t |-> "int", n |-> n]
StrV(s) == [t |-> "str", s |-> s]
ListV(l) == [t |-> "list", l |-> l]
BoolV(b) == [t |-> "bool", b |-> b]

IsStr(v) == v.t = "str"
IsList(v) == v.t = "list"

\* Python truthiness of a value: None, "", 0, [] and False are falsy.
Truthy(v) ==
    CASE v.t = "null" -> FALSE
      [] v.t = "str" -> v.s # <<>>
      [] v.t = "int" -> v.n # 0
      [] v.t = "list" -> v.l # <<>>
      [] v.t = "bool" -> v.b

\* dict.get(key): the value, or None when the key is missing.
Get(data, key) == IF key \in DOMAIN data THEN data[key] ELSE Null

NotSpecified == <<"N","o","t"," ","s","p","e","c","i","f","i","e","d">>

----------------------------------------------------------------------------
(* Characters and text *)

Digits == <<"0","1","2","3","4","5","6","7","8","9">>
DigitSet == {Digits[i] : i \in 1..10}
DigitVal(c) == (CHOOSE i \in 1..10 : Digits[i] = c) - 1

UpperCase == <<"A","B","C","D","E","F","G","H","I","J","K","L","M",
               "N","O","P","Q","R","S","T","U","V","W","X","Y","Z">>
LowerCase == <<"a","b","c","d","e","f","g","h","i","j","k","l","m",
               "n","o","p","q","r","s","t","u","v","w","x","y","z">>

\* Case folding of one character, as LIKE / ILIKE fold ASCII letters.
LowerChar(c) ==
    IF \E i \in 1..26 : UpperCase[i] = c
    THEN LowerCase[CHOOSE i \in 1..26 : UpperCase[i] = c]
    ELSE c

Lower(s) == [i \in 1..Len(s) |-> LowerChar(s[i])]

\* sub occurs in s as a contiguous run.
Contains(s, sub) ==
    \E i \in 1..(Len(s) - Len(sub) + 1) : SubSeq(s, i, i + Len(sub) - 1) = sub

WhiteSpace == {" "}

\* str.strip()
RECURSIVE LStrip(_)
LStrip(s) == IF s # <<>> /\ Head(s) \in WhiteSpace THEN LStrip(Tail(s)) ELSE s
RECURSIVE RStrip(_)
RStrip(s) ==
    IF s # <<>> /\ s[Len(s)] \in WhiteSpace THEN RStrip(SubSeq(s, 1, Len(s) - 1)) ELSE s
Strip(s) == RStrip(LStrip(s))

\* str.split(','): the pieces between commas, empty pieces kept.
RECURSIVE SplitFrom(_, _, _)
SplitFrom(s, i, cur) ==
    IF i > Len(s) THEN <<cur>>
    ELSE IF s[i] = "," THEN <<cur>> \o SplitFrom(s, i + 1, <<>>)
    ELSE SplitFrom(s, i + 1, Append(cur, s[i]))
Split(s) == SplitFrom(s, 1, <<>>)

\* The digits of s[i..] as far as they go: [n, next].
RECURSIVE DigitRun(_, _, _)
DigitRun(s, i, acc) ==
    IF i <= Len(s) /\ s[i] \in DigitSet
    THEN DigitRun(s, i + 1, 10 * acc + DigitVal(s[i]))
    ELSE [n |-> acc, next |-> i]

\* int(text): surrounding blanks and a sign are accepted; anything else raises
\* ValueError (ok = FALSE).
ToInt(text) ==
    LET s == Strip(text)
        signed == s # <<>> /\ s[1] \in {"-", "+"}
        first == IF signed THEN 2 ELSE 1
        run == DigitRun(s, first, 0)
    IN  IF first <= Len(s) /\ run.next = Len(s) + 1
        THEN [ok |-> TRUE, n |-> IF signed /\ s[1] = "-" THEN 0 - run.n ELSE run.n]
        ELSE [ok |-> FALSE, n |-> 0]

----------------------------------------------------------------------------
(* json.dumps of a list of strings, and json.loads *)

Quote(s) == <<"\"">> \o s \o <<"\"">>

RECURSIVE DumpItems(_)
DumpItems(l) ==
    IF l = <<>> THEN <<>>
    ELSE Quote(l[1].s) \o (IF Len(l) > 1 THEN <<",", " ">> \o DumpItems(Tail(l)) ELSE <<>>)

\* json.dumps(list): '["a", "b"]' with Python's ", " separator.
json_dumps(l) == <<"[">> \o DumpItems(l) \o <<"]">>

RECURSIVE SkipWs(_, _)
SkipWs(s, i) == IF i <= Len(s) /\ s[i] \in WhiteSpace THEN SkipWs(s, i + 1) ELSE i

Failed == [ok |-> FALSE, v |-> Null, next |-> 0]
Parsed(v, next) == [ok |-> TRUE, v |-> v, next |-> next]

StartsWith(s, i, word) ==
    i + Len(word) - 1 <= Len(s) /\ SubSeq(s, i, i + Len(word) - 1) = word

\* The JSON values the decoder reads: null, true, false, integers, strings
\* without escapes, and arrays of these.  Anything else is a JSONDecodeError.
RECURSIVE ParseValue(_, _)
RECURSIVE ParseElems(_, _, _)
ParseValue(s, i) ==
    IF i > Len(s) THEN Failed
    ELSE IF s[i] = "\"" THEN
        IF \E j \in (i + 1)..Len(s) : s[j] = "\""
        THEN LET j == CHOOSE j \in (i + 1)..Len(s) :
                        s[j] = "\"" /\ \A k \in (i + 1)..(j - 1) : s[k] # "\""
             IN  Parsed(StrV(SubSeq(s, i + 1, j - 1)), j + 1)
        ELSE Failed
    ELSE IF s[i] = "[" THEN
        LET j == SkipWs(s, i + 1)
        IN  IF j <= Len(s) /\ s[j] = "]" THEN Parsed(ListV(<<>>), j + 1)
            ELSE ParseElems(s, j, <<>>)
    ELSE IF StartsWith(s, i, <<"n","u","l","l">>) THEN Parsed(Null, i + 4)
    ELSE IF StartsWith(s, i, <<"t","r","u","e">>) THEN Parsed(BoolV(TRUE), i + 4)
    ELSE IF StartsWith(s, i, <<"f","a","l","s","e">>) THEN Parsed(BoolV(FALSE), i + 5)
    ELSE IF s[i] \in DigitSet \/ (s[i] = "-" /\ i < Len(s) /\ s[i + 1] \in DigitSet) THEN
        LET neg == s[i] = "-"
            first == IF neg THEN i + 1 ELSE i
            run == DigitRun(s, first, 0)
        IN  IF s[first] = "0" /\ run.next > first + 1 THEN Failed
            ELSE Parsed(IntV(IF neg THEN 0 - run.n ELSE run.n), run.next)
    ELSE Failed
ParseElems(s, i, acc) ==
    LET r == ParseValue(s, i)
    IN  IF ~r.ok THEN Failed
        ELSE LET k == SkipWs(s, r.next)
             IN  IF k > Len(s) THEN Failed
                 ELSE IF s[k] = "]" THEN Parsed(ListV(Append(acc, r.v)), k + 1)
                 ELSE IF s[k] = "," THEN ParseElems(s, SkipWs(s, k + 1), Append(acc, r.v))
                 ELSE Failed

\* json.loads(text): the whole text must be one value.
json_loads(s) ==
    LET r == ParseValue(s, SkipWs(s, 1))
    IN  IF r.ok /\ SkipWs(s, r.next) = Len(s) + 1 THEN r ELSE Failed

----------------------------------------------------------------------------
(* models/tool.py: the DeveloperTool row and its conversions *)

ArrayFields == {"frameworks", "supported_languages", "features",
                "native_integrations", "verified_integrations",
                "notable_strengths", "known_limitations"}

ScalarFields == {"name", "category", "description", "url",
                 "maturity_score", "popularity_score", "pricing"}

Columns == ScalarFields \cup ArrayFields \cup {"created_at", "updated_at"}

\* _parse_json_field: None and "Not specified" are [], a text is whatever
\* json.loads makes of it ([] when it does not decode), a list is itself.
parse_json_field(field_value) ==
    IF field_value = Null \/ field_value = StrV(NotSpecified) THEN ListV(<<>>)
    ELSE IF IsStr(field_value) THEN
        LET r == json_loads(field_value.s)
        IN  IF r.ok THEN r.v ELSE ListV(<<>>)
    ELSE IF IsList(field_value) THEN field_value
    ELSE ListV(<<>>)

\* _serialize_json_field: None stays None, a list becomes its JSON text,
\* anything else is stored as given.
serialize_json_field(field_value) ==
    IF field_value = Null THEN Null
    ELSE IF IsList(field_value) THEN StrV(json_dumps(field_value.l))
    ELSE field_value

\* datetime.isoformat(), None when the column is NULL.
isoformat(ts) == IF ts = Null THEN Null ELSE [t |-> "iso", at |-> ts.n]

to_dict(id, row) ==
    [id |-> IntV(id),
     name |-> row.name,
     category |-> row.category,
     description |-> row.description,
     url |-> row.url,
     frameworks |-> parse_json_field(row.frameworks),
     supported_languages |-> parse_json_field(row.supported_languages),
     features |-> parse_json_field(row.features),
     native_integrations |-> parse_json_field(row.native_integrations),
     verified_integrations |-> parse_json_field(row.verified_integrations),
     notable_strengths |-> parse_json_field(row.notable_strengths),
     known_limitations |-> parse_json_field(row.known_limitations),
     maturity_score |-> row.maturity_score,
     popularity_score |-> row.popularity_score,
     pricing |-> row.pricing,
     created_at |-> isoformat(row.created_at),
     updated_at |-> isoformat(row.updated_at)]

to_summary_dict(id, row) ==
    [id |-> IntV(id),
     name |-> row.name,
     category |-> row.category,
     description |-> row.description,
     url |-> row.url,
     maturity_score |-> row.maturity_score,
     popularity_score |-> row.popularity_score]

\* from_dict: a transient row; the timestamps are unset until the INSERT.
from_dict(data) ==
    [name |-> Get(data, "name"),
     category |-> Get(data, "category"),
     description |-> Get(data, "description"),
     url |-> Get(data, "url"),
     frameworks |-> serialize_json_field(Get(data, "frameworks")),
     supported_languages |-> serialize_json_field(Get(data, "supported_languages")),
     features |-> serialize_json_field(Get(data, "features")),
     native_integrations |-> serialize_json_field(Get(data, "native_integrations")),
     verified_integrations |-> serialize_json_field(Get(data, "verified_integrations")),
     notable_strengths |-> serialize_json_field(Get(data, "notable_strengths")),
     known_limitations |-> serialize_json_field(Get(data, "known_limitations")),
     maturity_score |-> Get(data, "maturity_score"),
     popularity_score |-> Get(data, "popularity_score"),
     pricing |-> Get(data, "pricing"),
     created_at |-> Null,
     updated_at |-> Null]

----------------------------------------------------------------------------
(* The table: constraints, id assignment, INSERT and UPDATE *)

Ids == 1..MaxId

SetMax(S) == CHOOSE m \in S : \A x \in S : x <= m

\* id is an INTEGER PRIMARY KEY: a new row gets the largest id in use plus one.
NextId(rows) == IF DOMAIN rows = {} THEN 1 ELSE SetMax(DOMAIN rows) + 1

\* nullable=False on name and category.
NotNullOk(row) == row.name # Null /\ row.category # Null

\* The table without its unique constraint.
UniqueOkDropped(rows, id, row) == TRUE

\* unique=True on name: no other row holds this name.
UniqueOk(rows, id, row) == \A j \in DOMAIN rows \ {id} : rows[j].name # row.name

\* What a commit raises.
NoError == "none"
NotNullError == "IntegrityError: NOT NULL constraint failed"
UniqueError == "IntegrityError: UNIQUE constraint failed"

\* An exception no handler catches is answered with 500.
StatusOf(exc, success) == IF exc = NoError THEN success ELSE 500

\* session.add(tool); session.commit(): the INSERT with the column defaults.
\* On an IntegrityError the table is as it was.
AddCommit(rows, row, now) ==
    LET id == NextId(rows)
        full == [row EXCEPT !.created_at = IntV(now), !.updated_at = IntV(now)]
    IN  IF ~NotNullOk(row) THEN [exc |-> NotNullError, id |-> 0, rows |-> rows]
        ELSE IF ~UniqueOk(rows, id, row) THEN [exc |-> UniqueError, id |-> 0, rows |-> rows]
        ELSE [exc |-> NoError, id |-> id,
              rows |-> [j \in DOMAIN rows \cup {id} |-> IF j = id THEN full ELSE rows[j]]]

\* A commit that stamps updated_at whether or not a column changed.
UpdateCommitTouch(rows, id, row, now) ==
    IF ~NotNullOk(row) THEN [exc |-> NotNullError, rows |-> rows]
    ELSE IF ~UniqueOk(rows, id, row) THEN [exc |-> UniqueError, rows |-> rows]
    ELSE [exc |-> NoError,
          rows |-> [rows EXCEPT ![id] = [row EXCEPT !.updated_at = IntV(now)]]]

\* session.commit() after attribute assignments: an UPDATE is emitted only when
\* some column has a net change, and only an emitted UPDATE applies onupdate.
UpdateCommit(rows, id, row, now) ==
    IF row = rows[id] THEN [exc |-> NoError, rows |-> rows]
    ELSE IF ~NotNullOk(row) THEN [exc |-> NotNullError, rows |-> rows]
    ELSE IF ~UniqueOk(rows, id, row) THEN [exc |-> UniqueError, rows |-> rows]
    ELSE [exc |-> NoError,
          rows |-> [rows EXCEPT ![id] = [row EXCEPT !.updated_at = IntV(now)]]]

\* A delete that empties the table.
DeleteCommitAll(rows, id) == <<>>

\* session.delete(tool); session.commit()
DeleteCommit(rows, id) == [j \in DOMAIN rows \ {id} |-> rows[j]]

----------------------------------------------------------------------------
(* routes/tools.py: the single-record handlers *)

\* create_tool up to the INSERT: 400, 409, or 0 to go on.
PreCheck(rows, data) ==
    IF ~Truthy(Get(data, "name")) \/ ~Truthy(Get(data, "category")) THEN 400
    ELSE IF \E j \in DOMAIN rows : rows[j].name = data["name"] THEN 409
    ELSE 0

\* Assignments that read the payload with data.get(): a missing description
\* becomes None.
ApplyUpdateGet(tool, data) ==
    [tool EXCEPT
       !.name = IF "name" \in DOMAIN data THEN data["name"] ELSE @,
       !.category = IF "category" \in DOMAIN data THEN data["category"] ELSE @,
       !.description = Get(data, "description")]

\* update_tool's assignments: one per key present in the payload.
ApplyUpdate(tool, data) ==
    [tool EXCEPT
       !.name = IF "name" \in DOMAIN data THEN data["name"] ELSE @,
       !.category = IF "category" \in DOMAIN data THEN data["category"] ELSE @,
       !.description = IF "description" \in DOMAIN data THEN data["description"] ELSE @,
       !.url = IF "url" \in DOMAIN data THEN data["url"] ELSE @,
       !.frameworks = IF "frameworks" \in DOMAIN data
                      THEN serialize_json_field(data["frameworks"]) ELSE @,
       !.supported_languages = IF "supported_languages" \in DOMAIN data
                      THEN serialize_json_field(data["supported_languages"]) ELSE @,
       !.features = IF "features" \in DOMAIN data
                      THEN serialize_json_field(data["features"]) ELSE @,
       !.native_integrations = IF "native_integrations" \in DOMAIN data
                      THEN serialize_json_field(data["native_integrations"]) ELSE @,
       !.verified_integrations = IF "verified_integrations" \in DOMAIN data
                      THEN serialize_json_field(data["verified_integrations"]) ELSE @,
       !.notable_strengths = IF "notable_strengths" \in DOMAIN data
                      THEN serialize_json_field(data["notable_strengths"]) ELSE @,
       !.known_limitations = IF "known_limitations" \in DOMAIN data
                      THEN serialize_json_field(data["known_limitations"]) ELSE @,
       !.maturity_score = IF "maturity_score" \in DOMAIN data
                      THEN data["maturity_score"] ELSE @,
       !.popularity_score = IF "popularity_score" \in DOMAIN data
                      THEN data["popularity_score"] ELSE @,
       !.pricing = IF "pricing" \in DOMAIN data THEN data["pricing"] ELSE @]

\* The record of a completed request: what it was, when, and how it ended.
Done(op, id, status, exc) ==
    [op |-> op, id |-> id, status |-> status, exc |-> exc, at |-> clock]

\* POST /tools, handled from start to end with no other request in between.
create_tool(data) ==
    /\ LET chk == PreCheck(store, data)
       IN  IF chk # 0
           THEN /\ store' = store
                /\ last' = Done("create", 0, chk, NoError)
           ELSE /\ NextId(store) <= MaxId
                /\ LET r == AddCommit(store, from_dict(data), clock)
                   IN  /\ store' = r.rows
                       /\ last' = Done("create", r.id, StatusOf(r.exc, 201), r.exc)
    /\ UNCHANGED <<clock, deleted, pc, resp>>

\* PUT /tools/<id>
update_tool(tool_id, data) ==
    /\ IF tool_id \notin DOMAIN store
       THEN /\ store' = store
            /\ last' = Done("update", tool_id, 404, NoError)
       ELSE LET r == UpdateCommit(store, tool_id, ApplyUpdate(store[tool_id], data), clock)
            IN  /\ store' = r.rows
                /\ last' = Done("update", tool_id, StatusOf(r.exc, 200), r.exc)
    /\ UNCHANGED <<clock, deleted, pc, resp>>

\* DELETE /tools/<id>
delete_tool(tool_id) ==
    /\ IF tool_id \notin DOMAIN store
       THEN /\ store' = store
            /\ deleted' = deleted
            /\ last' = Done("delete", tool_id, 404, NoError)
       ELSE /\ store' = DeleteCommit(store, tool_id)
            /\ deleted' = deleted \cup {tool_id}
            /\ last' = Done("delete", tool_id, 204, NoError)
    /\ UNCHANGED <<clock, pc, resp>>

\* GET /tools/<id>
get_tool(tool_id) ==
    /\ last' = Done("get", tool_id, IF tool_id \in DOMAIN store THEN 200 ELSE 404, NoError)
    /\ UNCHANGED <<store, clock, deleted, pc, resp>>

\* Time passes between requests.
Tick ==
    /\ clock < MaxClock
    /\ clock' = clock + 1
    /\ UNCHANGED <<store, last, deleted, pc, resp>>

----------------------------------------------------------------------------
(* Request payloads *)

\* Every JSON object whose keys are some of choices' keys, each with one of
\* the values choices offers for it.
Payloads(choices) ==
    UNION {{f \in [K -> UNION {choices[k] : k \in K}] : \A k \in K : f[k] \in choices[k]} :
           K \in SUBSET DOMAIN choices}

tA == <<"A">>
tB == <<"B">>
tAI == <<"A", "I">>
tDesc == <<"d">>

CreatePayloads ==
    Payloads([name |-> {StrV(tA), StrV(tB)},
              category |-> {StrV(tAI)},
              description |-> {StrV(tDesc)}])
    \cup {[name |-> StrV(<<>>), category |-> StrV(tAI)]}

UpdatePayloads ==
    Payloads([name |-> {StrV(tA), StrV(tB), Null},
              description |-> {StrV(tDesc), Null}])
    \cup {[category |-> StrV(tAI)],
          [category |-> Null],
          [id |-> IntV(MaxId), description |-> StrV(tDesc)]}

Workers == {1, 2}
Idle == [op |-> "none", at |-> "idle", data |-> <<>>, status |-> 0]
NoResp == [op |-> "none", status |-> 0]
\* A request that has arrived at a worker and is not yet handled.
Request(op, data) == [op |-> op, at |-> "start", data |-> data, status |-> 0]

----------------------------------------------------------------------------
(* The service handling one request at a time *)

Init ==
    /\ store = <<>>
    /\ clock = 0
    /\ last = [op |-> "none", id |-> 0, status |-> 0, exc |-> NoError, at |-> 0]
    /\ deleted = {}
    /\ pc = [w \in Workers |-> Idle]
    /\ resp = NoResp

Next ==
    \/ \E data \in CreatePayloads : create_tool(data)
    \/ \E tool_id \in Ids, data \in UpdatePayloads : update_tool(tool_id, data)
    \/ \E tool_id \in Ids : delete_tool(tool_id)
    \/ \E tool_id \in Ids : get_tool(tool_id)
    \/ Tick

Spec == Init /\ [][Next]_vars

----------------------------------------------------------------------------
(* Two create requests handled concurrently *)

\* POST /tools up to the duplicate check: the validation and the SELECT.
create_check(w) ==
    /\ pc[w].op = "create" /\ pc[w].at = "start"
    /\ LET chk == PreCheck(store, pc[w].data)
       IN  IF chk # 0
           THEN /\ pc' = [pc EXCEPT ![w].at = "done", ![w].status = chk]
                /\ last' = Done("create", 0, chk, NoError)
           ELSE /\ pc' = [pc EXCEPT ![w].at = "checked"]
                /\ last' = last
    /\ UNCHANGED <<store, clock, deleted, resp>>

\* POST /tools from from_dict to the response: the INSERT and its commit.
create_commit(w) ==
    /\ pc[w].op = "create" /\ pc[w].at = "checked"
    /\ LET r == AddCommit(store, from_dict(pc[w].data), clock)
       IN  /\ store' = r.rows
           /\ pc' = [pc EXCEPT ![w].at = "done", ![w].status = StatusOf(r.exc, 201)]
           /\ last' = Done("create", r.id, StatusOf(r.exc, 201), r.exc)
    /\ UNCHANGED <<clock, deleted, resp>>

RacePayloads ==
    Payloads([name |-> {StrV(tA), StrV(tB)},
              category |-> {StrV(tAI)},
              description |-> {StrV(tDesc)}])

\* The table before the two requests: empty, or holding a tool named B.
RaceStores ==
    {<<>>, AddCommit(<<>>, from_dict([name |-> StrV(tB), category |-> StrV(tAI)]), 0).rows}

InitRace ==
    /\ store \in RaceStores
    /\ clock = 0
    /\ last = [op |-> "none", id |-> 0, status |-> 0, exc |-> NoError, at |-> 0]
    /\ deleted = {}
    /\ pc \in [Workers -> {Request("create", d) : d \in RacePayloads}]
    /\ resp = NoResp

NextRace ==
    \/ \E w \in Workers : create_check(w)
    \/ \E w \in Workers : create_commit(w)

SpecRace == InitRace /\ [][NextRace]_vars

----------------------------------------------------------------------------
(* Requests that carry array fields *)

tRe == <<"R", "e">>
tVu == <<"V", "u">>

\* What a payload may give for an array field: lists, and texts that are a
\* JSON array, plain comma-separated words, the sentinel, empty, or JSON that
\* is no array.
ArrayInputs ==
    {Null,
     ListV(<<>>),
     ListV(<<StrV(tRe), StrV(tVu)>>),
     StrV(json_dumps(<<StrV(tRe)>>)),
     StrV(<<"R", "e", ",", " ", "V", "u">>),
     StrV(NotSpecified),
     StrV(<<>>),
     StrV(<<"n", "u", "l", "l">>),
     StrV(<<"7">>)}

\* Payloads that give one value to frameworks alone, or to all seven fields.
ArrayPayloads ==
    {[frameworks |-> v] : v \in ArrayInputs}
    \cup {[f \in ArrayFields |-> v] : v \in ArrayInputs}

\* p and q in one object; the keys of q win.
Merge(p, q) ==
    [k \in DOMAIN p \cup DOMAIN q |-> IF k \in DOMAIN q THEN q[k] ELSE p[k]]

ArrCreatePayloads ==
    {[name |-> StrV(tA), category |-> StrV(tAI)]}
    \cup {Merge([name |-> StrV(tA), category |-> StrV(tAI)], a) : a \in ArrayPayloads}

NextArr ==
    \/ \E data \in ArrCreatePayloads : create_tool(data)
    \/ \E tool_id \in Ids, data \in ArrayPayloads : update_tool(tool_id, data)
    \/ \E tool_id \in Ids : delete_tool(tool_id)

SpecArr == Init /\ [][NextArr]_vars

----------------------------------------------------------------------------
(* routes/tools.py: list and search *)

MaxPerPage == 100
DefaultPerPage == 20

Min(a, b) == IF a <= b THEN a ELSE b

\* request.args.get(key, default): query parameters are texts.
Arg(args, key, default) == IF key \in DOMAIN args THEN args[key] ELSE default

\* column.ilike('%text%'): NULL matches nothing; letters match in either case.
ILike(column, text) ==
    /\ column # Null
    /\ IsStr(column)
    /\ Contains(Lower(column.s), Lower(text))

\* query.all(): the selected rows come back in id order.
RECURSIVE InIdOrder(_)
InIdOrder(ids) ==
    IF ids = {} THEN <<>>
    ELSE LET id == CHOOSE i \in ids : \A j \in ids : i <= j
         IN  <<id>> \o InIdOrder(ids \ {id})

\* The filter get_tools builds from category and search.
ListFilter(row, category, search) ==
    /\ category # <<>> => ILike(row.category, category)
    /\ search # <<>> =>
         \/ ILike(row.name, search)
         \/ ILike(row.description, search)
         \/ ILike(row.features, search)

\* A page whose page count is rounded down.
PaginateFloor(items, page, per_page) ==
    LET p == IF page < 1 THEN 1 ELSE page
        k == IF per_page < 1 THEN DefaultPerPage ELSE per_page
        total == Len(items)
    IN  [items |-> SubSeq(items, (p - 1) * k + 1, Min(p * k, total)),
         total |-> total,
         pages |-> total \div k,
         has_next |-> p < total \div k,
         has_prev |-> p > 1]

\* query.paginate(page, per_page, error_out=False): a page below 1 is page 1,
\* a per_page below 1 is the default; a page past the end is empty.
Paginate(items, page, per_page) ==
    LET p == IF page < 1 THEN 1 ELSE page
        k == IF per_page < 1 THEN DefaultPerPage ELSE per_page
        total == Len(items)
        pages == IF total = 0 THEN 0 ELSE (total + k - 1) \div k
    IN  [items |-> SubSeq(items, (p - 1) * k + 1, Min(p * k, total)),
         total |-> total,
         pages |-> pages,
         has_next |-> p < pages,
         has_prev |-> p > 1]

\* GET /tools
get_tools(w) ==
    /\ pc[w].op = "list" /\ pc[w].at = "start"
    /\ LET args == pc[w].data
           page == ToInt(Arg(args, "page", <<"1">>))
           per == ToInt(Arg(args, "per_page", <<"2", "0">>))
           per_page == Min(per.n, MaxPerPage)
           summary == Lower(Arg(args, "summary", <<"f","a","l","s","e">>)) = <<"t","r","u","e">>
           category == Arg(args, "category", <<>>)
           search == Arg(args, "search", <<>>)
           query == {id \in DOMAIN store : ListFilter(store[id], category, search)}
           pagination == Paginate(InIdOrder(query), page.n, per_page)
           tools == pagination.items
       IN  IF ~page.ok \/ ~per.ok
           THEN resp' = [op |-> "list", status |-> 500, args |-> args]
           ELSE resp' =
                  [op |-> "list", status |-> 200, args |-> args,
                   tools |-> [i \in 1..Len(tools) |->
                                IF summary THEN to_summary_dict(tools[i], store[tools[i]])
                                ELSE to_dict(tools[i], store[tools[i]])],
                   pagination |-> [page |-> page.n,
                                   per_page |-> per_page,
                                   total |-> pagination.total,
                                   pages |-> pagination.pages,
                                   has_next |-> pagination.has_next,
                                   has_prev |-> pagination.has_prev]]
    /\ pc' = [pc EXCEPT ![w].at = "done", ![w].status = resp'.status]
    /\ UNCHANGED <<store, clock, last, deleted>>

\* request.args.get(key, type=int): None when missing or not a number.
IntArg(args, key) ==
    IF key \in DOMAIN args /\ ToInt(args[key]).ok THEN IntV(ToInt(args[key]).n) ELSE Null

\* The comma-separated members of a parameter, [] when it is missing or empty.
ListArg(args, key) == IF Arg(args, key, <<>>) # <<>> THEN Split(args[key]) ELSE <<>>

\* The members that are not blank, stripped.
Members(list) == {Strip(list[i]) : i \in {j \in 1..Len(list) : Strip(list[j]) # <<>>}}

\* The filter search_tools builds.
SearchFilter(row, args) ==
    LET query_text == Arg(args, "q", <<>>)
        category == Arg(args, "category", <<>>)
        min_maturity == IntArg(args, "min_maturity")
        min_popularity == IntArg(args, "min_popularity")
        frameworks == ListArg(args, "frameworks")
        languages == ListArg(args, "languages")
    IN  /\ query_text # <<>> =>
             \/ ILike(row.name, query_text)
             \/ ILike(row.description, query_text)
             \/ ILike(row.features, query_text)
        /\ category # <<>> => ILike(row.category, category)
        /\ Truthy(min_maturity) =>
             (row.maturity_score # Null /\ row.maturity_score.n >= min_maturity.n)
        /\ Truthy(min_popularity) =>
             (row.popularity_score # Null /\ row.popularity_score.n >= min_popularity.n)
        /\ (frameworks # <<>> /\ Members(frameworks) # {}) =>
             \E m \in Members(frameworks) : ILike(row.frameworks, m)
        /\ (languages # <<>> /\ Members(languages) # {}) =>
             \E m \in Members(languages) : ILike(row.supported_languages, m)

\* GET /tools/search
search_tools(w) ==
    /\ pc[w].op = "search" /\ pc[w].at = "start"
    /\ LET args == pc[w].data
           query == {id \in DOMAIN store : SearchFilter(store[id], args)}
           tools == InIdOrder(query)
       IN  resp' = [op |-> "search", status |-> 200, args |-> args,
                    tools |-> [i \in 1..Len(tools) |-> to_dict(tools[i], store[tools[i]])],
                    count |-> Len(tools)]
    /\ pc' = [pc EXCEPT ![w].at = "done", ![w].status = 200]
    /\ UNCHANGED <<store, clock, last, deleted>>

----------------------------------------------------------------------------
(* Listing tables of every size up to MaxRows *)

tDB == <<"D", "B">>

\* The i-th tool of a listed table, as create_tool stores it at time 0.
ListRow(i) ==
    [from_dict([name |-> StrV(<<"T", LowerCase[i]>>),
                category |-> StrV(IF i % 2 = 1 THEN tAI ELSE tDB)])
       EXCEPT !.created_at = IntV(0), !.updated_at = IntV(0)]

ListArgs ==
    Payloads([page |-> {<<"0">>, <<"1">>, <<"2">>, <<"3">>, <<"4">>, <<"x">>},
              per_page |-> {<<"-", "5">>, <<"0">>, <<"1">>, <<"5">>,
                            <<"1", "0", "0">>, <<"1", "0", "1">>},
              category |-> {<<"a", "i">>},
              search |-> {<<"t", "a">>},
              summary |-> {<<"t", "r", "u", "e">>}])

InitList ==
    /\ \E n \in 0..MaxRows : store = [i \in 1..n |-> ListRow(i)]
    /\ clock = 0
    /\ last = [op |-> "none", id |-> 0, status |-> 0, exc |-> NoError, at |-> 0]
    /\ deleted = {}
    /\ \E args \in ListArgs : pc = [w \in Workers |-> IF w = 1 THEN Request("list", args) ELSE Idle]
    /\ resp = NoResp

NextList == \E w \in Workers : get_tools(w)

SpecList == InitList /\ [][NextList]_vars

----------------------------------------------------------------------------
(* Searching two-tool tables *)

tPy == <<"P", "y">>

SearchFirst ==
    {Merge([name |-> StrV(<<"T", "a">>), category |-> StrV(tAI)], p) :
       p \in Payloads([frameworks |-> {ListV(<<StrV(tRe)>>), ListV(<<StrV(tRe), StrV(tVu)>>)},
                       maturity_score |-> {IntV(5), IntV(0 - 1)}])}

SearchSecond ==
    {Merge([name |-> StrV(<<"T", "b">>), category |-> StrV(tDB)], p) :
       p \in Payloads([frameworks |-> {ListV(<<StrV(tVu)>>)},
                       supported_languages |-> {ListV(<<StrV(tPy)>>)},
                       popularity_score |-> {IntV(3)},
                       description |-> {StrV(<<"r", "e">>)}])}

\* The table after the two creates, at time 0.
SearchStores ==
    {AddCommit(AddCommit(<<>>, from_dict(p), 0).rows, from_dict(q), 0).rows :
       p \in SearchFirst, q \in SearchSecond}

SearchArgs ==
    Payloads([q |-> {<<"r", "e">>},
              category |-> {<<"a", "i">>},
              min_maturity |-> {<<"0">>, <<"5">>},
              min_popularity |-> {<<"0">>},
              frameworks |-> {<<"r", "e", ",", " ", "v", "u">>, <<"V", "U">>},
              languages |-> {<<"p", "y">>}])

InitSearch ==
    /\ store \in SearchStores
    /\ clock = 0
    /\ last = [op |-> "none", id |-> 0, status |-> 0, exc |-> NoError, at |-> 0]
    /\ deleted = {}
    /\ \E args \in SearchArgs :
         pc = [w \in Workers |-> IF w = 1 THEN Request("search", args) ELSE Idle]
    /\ resp = NoResp

NextSearch == \E w \in Workers : search_tools(w)

SpecSearch == InitSearch /\ [][NextSearch]_vars

----------------------------------------------------------------------------
(* routes/tools.py: the categories in use *)

\* The characters of the model in code-point order, as Python compares texts.
Ascii == <<" ", "\"", ",", "-">> \o Digits \o UpperCase \o <<"[", "]">> \o LowerCase
Ord(c) == CHOOSE i \in 1..Len(Ascii) : Ascii[i] = c

\* a < b for two texts: the first differing character decides, a proper
\* prefix comes first.
RECURSIVE StrLess(_, _)
StrLess(a, b) ==
    IF b = <<>> THEN FALSE
    ELSE IF a = <<>> THEN TRUE
    ELSE IF a[1] = b[1] THEN StrLess(Tail(a), Tail(b))
    ELSE Ord(a[1]) < Ord(b[1])

\* sorted(list) of texts: ascending, equal elements kept in their order.
RECURSIVE InsertSorted(_, _)
InsertSorted(s, x) ==
    IF s = <<>> THEN <<x>>
    ELSE IF StrLess(x.s, s[Len(s)].s)
         THEN Append(InsertSorted(SubSeq(s, 1, Len(s) - 1), x), s[Len(s)])
         ELSE Append(s, x)
RECURSIVE sorted(_)
sorted(l) ==
    IF l = <<>> THEN <<>>
    ELSE InsertSorted(sorted(SubSeq(l, 1, Len(l) - 1)), l[Len(l)])

\* session.query(DeveloperTool.category): one value per row.
query_category(rows) ==
    LET ids == InIdOrder(DOMAIN rows)
    IN  [i \in 1..Len(ids) |-> rows[ids[i]].category]

\* A query that keeps a value once per row holding it.
distinctDropped(l) == l

\* .distinct(): each value once.
RECURSIVE distinct(_)
distinct(l) ==
    IF l = <<>> THEN <<>>
    ELSE LET front == distinct(SubSeq(l, 1, Len(l) - 1))
             x == l[Len(l)]
         IN  IF \E i \in 1..Len(front) : front[i] = x THEN front ELSE Append(front, x)

\* [cat[0] for cat in categories if cat[0]]
RECURSIVE KeepTruthy(_)
KeepTruthy(l) ==
    IF l = <<>> THEN <<>>
    ELSE (IF Truthy(l[1]) THEN <<l[1]>> ELSE <<>>) \o KeepTruthy(Tail(l))

\* GET /tools/categories
get_categories(w) ==
    /\ pc[w].op = "categories" /\ pc[w].at = "start"
    /\ LET categories == distinct(query_category(store))
           categories_list == KeepTruthy(categories)
       IN  resp' = [op |-> "categories", status |-> 200, at |-> clock,
                    categories |-> sorted(categories_list)]
    /\ pc' = [pc EXCEPT ![w].at = "done", ![w].status = 200]
    /\ UNCHANGED <<store, clock, last, deleted>>

\* The category the i-th tool of a starting table was created with.
CatCycle == <<StrV(tDB), StrV(tAI), StrV(<<"a", "i">>)>>

CatRow(i) ==
    [from_dict([name |-> StrV(<<"T", LowerCase[i]>>),
                category |-> CatCycle[i]])
       EXCEPT !.created_at = IntV(0), !.updated_at = IntV(0)]

CatCreatePayloads == {[name |-> StrV(tA), category |-> StrV(tAI)]}

CatUpdatePayloads ==
    {[category |-> c] : c \in {StrV(<<>>), StrV(tA)}}

\* The ids of the largest starting table, and those a create can hand out.
CatIds == 1..Len(CatCycle) \cup Ids

\* A table of no tool, or the first one, two or three of them, and one
\* categories request that is handled at some moment between the other
\* requests.
InitCat ==
    /\ \E n \in 0..Len(CatCycle) : store = [i \in 1..n |-> CatRow(i)]
    /\ clock = 0
    /\ last = [op |-> "none", id |-> 0, status |-> 0, exc |-> NoError, at |-> 0]
    /\ deleted = {}
    /\ pc = [w \in Workers |-> IF w = 1 THEN Request("categories", <<>>) ELSE Idle]
    /\ resp = NoResp

NextCat ==
    \/ \E data \in CatCreatePayloads : create_tool(data)
    \/ \E tool_id \in CatIds, data \in CatUpdatePayloads : update_tool(tool_id, data)
    \/ \E tool_id \in CatIds : delete_tool(tool_id)
    \/ \E w \in Workers : get_categories(w)
    \/ Tick

SpecCat == InitCat /\ [][NextCat]_vars

----------------------------------------------------------------------------
(* import_data.py: the bulk import *)

\* row.get(key, ''): the cell of a CSV row; a column the file lacks is '',
\* a cell a short line lacks is None.
Cell(row, key) == IF key \in DOMAIN row THEN row[key] ELSE StrV(<<>>)

\* The cells that are None or are the sentinel once stripped.
Unspecified(field_value) ==
    ~Truthy(field_value) \/ Strip(field_value.s) = NotSpecified

\* [item.strip() for item in items if item.strip()]
RECURSIVE StripItems(_)
StripItems(items) ==
    IF items = <<>> THEN <<>>
    ELSE (IF Strip(items[1]) # <<>> THEN <<StrV(Strip(items[1]))>> ELSE <<>>)
         \o StripItems(Tail(items))

\* parse_array_field: the stripped non-blank pieces between the commas.
parse_array_field(field_value) ==
    IF Unspecified(field_value) THEN ListV(<<>>)
    ELSE ListV(StripItems(Split(field_value.s)))

\* A score parser that keeps whatever number the cell holds.
parse_score_field_unchecked(field_value) ==
    IF Unspecified(field_value) THEN Null
    ELSE LET score == ToInt(field_value.s)
         IN  IF ~score.ok THEN Null ELSE IntV(score.n)

\* parse_score_field: the number of the cell when it is one of 1..10.
parse_score_field(field_value) ==
    IF Unspecified(field_value) THEN Null
    ELSE LET score == ToInt(field_value.s)
         IN  IF ~score.ok THEN Null
             ELSE IF 1 <= score.n /\ score.n <= 10 THEN IntV(score.n) ELSE Null

StripCells == {"Name", "Categories", "Description", "URL", "Pricing"}

\* The body of the loop for one row: the tool to add, or nothing when the
\* row has no name or .strip() of a missing cell raised (caught, logged).
ImportRow(row) ==
    IF \E k \in StripCells : Cell(row, k) = Null THEN <<>>
    ELSE IF Strip(Cell(row, "Name").s) = <<>> THEN <<>>
    ELSE <<[name |-> StrV(Strip(Cell(row, "Name").s)),
            category |-> StrV(Strip(Cell(row, "Categories").s)),
            description |-> StrV(Strip(Cell(row, "Description").s)),
            url |-> StrV(Strip(Cell(row, "URL").s)),
            pricing |-> StrV(Strip(Cell(row, "Pricing").s)),
            frameworks |-> StrV(json_dumps(parse_array_field(Cell(row, "Frameworks")).l)),
            supported_languages |->
                StrV(json_dumps(parse_array_field(Cell(row, "Supported_Languages")).l)),
            features |-> StrV(json_dumps(parse_array_field(Cell(row, "Features")).l)),
            native_integrations |->
                StrV(json_dumps(parse_array_field(Cell(row, "Native Integrations")).l)),
            verified_integrations |->
                StrV(json_dumps(parse_array_field(Cell(row, "Verified Integrations")).l)),
            notable_strengths |->
                StrV(json_dumps(parse_array_field(Cell(row, "Notable Strengths")).l)),
            known_limitations |->
                StrV(json_dumps(parse_array_field(Cell(row, "Known Limitations")).l)),
            maturity_score |-> parse_score_field(Cell(row, "Maturity Score")),
            popularity_score |-> parse_score_field(Cell(row, "Popularity Score")),
            created_at |-> Null,
            updated_at |-> Null]>>

\* The tools the loop adds to the session, in the order of the file.
RECURSIVE ImportRows(_)
ImportRows(reader) ==
    IF reader = <<>> THEN <<>> ELSE ImportRow(reader[1]) \o ImportRows(Tail(reader))

\* The commit after the loop: one INSERT per tool, all of them or none.
RECURSIVE AddAll(_, _, _)
AddAll(rows, tools, now) ==
    IF tools = <<>> THEN [exc |-> NoError, rows |-> rows]
    ELSE LET r == AddCommit(rows, tools[1], now)
         IN  IF r.exc # NoError THEN [exc |-> r.exc, rows |-> <<>>]
             ELSE AddAll(r.rows, Tail(tools), now)

\* import_tools_from_csv: the table is emptied (and that committed), then
\* holds the tools of the file; an IntegrityError of the last commit is not
\* caught and leaves the table empty.
import_tools_from_csv(w) ==
    /\ pc[w].op = "import" /\ pc[w].at = "start"
    /\ LET r == AddAll(<<>>, ImportRows(pc[w].data), clock)
       IN  /\ store' = r.rows
           /\ resp' = [op |-> "import", status |-> 0, exc |-> r.exc,
                       result |-> r.exc = NoError]
    /\ pc' = [pc EXCEPT ![w].at = "done"]
    /\ UNCHANGED <<clock, last, deleted>>

----------------------------------------------------------------------------
(* Scores arriving by import, create and update *)

tTa == <<"T", "a">>
tTb == <<"T", "b">>

\* A CSV row: its cells by column name.
CsvRow(name, cells) ==
    Merge([k \in {"Name", "Categories", "Description", "URL", "Pricing"} |->
             IF k = "Name" THEN StrV(name)
             ELSE IF k = "Categories" THEN StrV(tAI) ELSE StrV(<<>>)],
          cells)

ScoreCells ==
    {StrV(<<"5">>), StrV(<<"1", "1">>), StrV(<<"0">>), StrV(NotSpecified), StrV(<<>>)}

\* Files of one or two rows with score cells.
ScoreCsvs ==
    {<<CsvRow(tTa, [k \in {"Maturity Score"} |-> m])>> : m \in ScoreCells}
    \cup {<<CsvRow(tTa, [k \in {"Maturity Score"} |-> m]),
            CsvRow(tTb, [k \in {"Popularity Score"} |-> StrV(<<"1", "0">>)])>> :
            m \in ScoreCells}

\* The scores a JSON payload may carry.
ScoreValues == {IntV(1), IntV(10), IntV(11), IntV(0), Null}

ScoreCreatePayloads ==
    {Merge([name |-> StrV(tA), category |-> StrV(tAI)], p) :
       p \in Payloads([maturity_score |-> ScoreValues,
                       popularity_score |-> {IntV(10)}])}

ScoreUpdatePayloads ==
    {[maturity_score |-> v] : v \in ScoreValues}
    \cup {[popularity_score |-> v] : v \in ScoreValues}

InitScore ==
    /\ store = <<>>
    /\ clock = 0
    /\ last = [op |-> "none", id |-> 0, status |-> 0, exc |-> NoError, at |-> 0]
    /\ deleted = {}
    /\ \E csv \in ScoreCsvs :
         pc = [w \in Workers |-> IF w = 1 THEN Request("import", csv) ELSE Idle]
    /\ resp = NoResp

NextScore ==
    \/ \E w \in Workers : import_tools_from_csv(w)
    \/ \E data \in ScoreCreatePayloads : create_tool(data)
    \/ \E tool_id \in Ids, data \in ScoreUpdatePayloads : update_tool(tool_id, data)

SpecScore == InitScore /\ [][NextScore]_vars

----------------------------------------------------------------------------
(* Importing files whose score cells hold numbers and other texts *)

\* str(n): the decimal text of an integer, as a file holds it.
RECURSIVE DecNat(_)
DecNat(n) ==
    IF n < 10 THEN <<Digits[n + 1]>>
    ELSE DecNat(n \div 10) \o <<Digits[(n % 10) + 1]>>
Dec(n) == IF n < 0 THEN <<"-">> \o DecNat(0 - n) ELSE DecNat(n)

\* What a score cell may hold: an integer, an integer between blanks or with
\* a sign or a leading zero, no number at all, the sentinel, nothing, or the
\* missing cell of a short line.
ScoreTexts ==
    {StrV(Dec(n)) : n \in (0 - MaxScoreInput)..MaxScoreInput}
    \cup {StrV(<<" ">> \o Dec(n) \o <<" ">>) : n \in {0, 1, 10, 11}}
    \cup {StrV(<<"+", "4">>), StrV(<<"0", "7">>), StrV(<<"x">>), StrV(<<"5", "x">>),
          StrV(<<"-">>), StrV(<<" ">>), StrV(<<"1", " ", "0">>),
          StrV(<<>>), StrV(NotSpecified), StrV(<<" ">> \o NotSpecified \o <<" ">>), Null}

ImportCsvs ==
    {<<CsvRow(tTa, Merge([k \in {"Maturity Score"} |-> m], p))>> :
       m \in ScoreTexts,
       p \in {<<>>} \cup {[k \in {"Popularity Score"} |-> v] :
                            v \in {StrV(Dec(10)), StrV(Dec(11)), Null}}}

\* The table before the import, which the import empties.
InitImport ==
    /\ store \in RaceStores
    /\ clock = 0
    /\ last = [op |-> "none", id |-> 0, status |-> 0, exc |-> NoError, at |-> 0]
    /\ deleted = {}
    /\ \E csv \in ImportCsvs :
         pc = [w \in Workers |-> IF w = 1 THEN Request("import", csv) ELSE Idle]
    /\ resp = NoResp

NextImport == \E w \in Workers : import_tools_from_csv(w)

SpecImport == InitImport /\ [][NextImport]_vars

----------------------------------------------------------------------------
(* Array fields arriving by import, create and update *)

tReVu == <<"R", "e", ",", " ", "V", "u">>
tReVuBlanks == <<" ", "R", "e", " ", ",", ",", " ", "V", "u", " ">>

\* The array cells of a file: comma-separated words, nothing, the sentinel,
\* or the missing cell of a short line.
NormCells == {StrV(tReVu), StrV(tReVuBlanks), StrV(tRe), StrV(<<>>), StrV(NotSpecified), Null}

NormCsvs ==
    {<<CsvRow(tTa, [k \in {"Frameworks"} |-> v])>> : v \in NormCells}
    \cup {<<CsvRow(tTa, [k \in {"Frameworks", "Features", "Known Limitations"} |-> v]),
            CsvRow(tTb, <<>>)>> : v \in NormCells}

\* What a payload gives for an array field here: a list, the text of a JSON
\* array, comma-separated words, the sentinel, nothing.
NormInputs ==
    {Null,
     ListV(<<StrV(tRe), StrV(tVu)>>),
     StrV(json_dumps(<<StrV(tRe), StrV(tVu)>>)),
     StrV(tReVu),
     StrV(tReVuBlanks),
     StrV(NotSpecified),
     StrV(<<>>)}

NormCreatePayloads ==
    {Merge([name |-> StrV(tA), category |-> StrV(tAI)], [frameworks |-> v]) : v \in NormInputs}

NormUpdatePayloads ==
    {[frameworks |-> v] : v \in NormInputs} \cup {[features |-> v] : v \in NormInputs}

InitNorm ==
    /\ store = <<>>
    /\ clock = 0
    /\ last = [op |-> "none", id |-> 0, status |-> 0, exc |-> NoError, at |-> 0]
    /\ deleted = {}
    /\ \E csv \in NormCsvs :
         pc = [w \in Workers |-> IF w = 1 THEN Request("import", csv) ELSE Idle]
    /\ resp = NoResp

NextNorm ==
    \/ \E w \in Workers : import_tools_from_csv(w)
    \/ \E data \in NormCreatePayloads : create_tool(data)
    \/ \E tool_id \in Ids, data \in NormUpdatePayloads : update_tool(tool_id, data)

SpecNorm == InitNorm /\ [][NextNorm]_vars

----------------------------------------------------------------------------
(* Properties of the single-record requests *)

Success == {200, 201, 204}
Refusals == {400, 404, 409}

\* C1: in every reachable state no two stored rows have the same name, also
\* after an update whose payload names another row's name.
NameUnique ==
    \A i \in DOMAIN store : \A j \in DOMAIN store :
        i # j => store[i].name # store[j].name

\* An update has just asked for the name of another stored row.
NameUniqueWitness ==
    /\ last.op = "update"
    /\ last.exc = UniqueError
    /\ Cardinality(DOMAIN store) = 2

\* C3: every single-record request ends with success, 404, 409 or 400 and
\* nothing else, and a request that is refused leaves the table as it was.
OnlyDocumentedOutcomes ==
    [][/\ last'.status \in Success \cup Refusals \cup {0}
       /\ (last' # last /\ last'.status \notin Success) => store' = store]_vars

\* C5: a successful update changes only the columns named by the payload's
\* keys (and updated_at) of the row it addresses, keeps that row under its
\* id, and leaves every other row alone; an update of an absent id is a 404.
\* (A step that leaves the table as it was changes nothing at all, so the
\* payloads are asked about only for the steps that change it.)
UpdateFrame ==
    [][(last'.op = "update" /\ (last' # last \/ store' # store)) =>
         IF last'.id \notin DOMAIN store
         THEN last'.status = 404 /\ store' = store
         ELSE /\ last'.status # 404
              /\ (last'.status = 200 /\ store' # store) =>
                   \A data \in UpdatePayloads :
                     update_tool(last'.id, data) =>
                       /\ DOMAIN store' = DOMAIN store
                       /\ \A j \in DOMAIN store \ {last'.id} : store'[j] = store[j]
                       /\ \A f \in Columns \ (DOMAIN data \cup {"updated_at"}) :
                             store'[last'.id][f] = store[last'.id][f]
              /\ last'.status # 200 => store' = store]_vars

\* A row that kept its description through a successful update of its name,
\* beside another row.
UpdateFrameWitness ==
    /\ last.op = "update" /\ last.status = 200
    /\ Cardinality(DOMAIN store) = 2
    /\ last.id \in DOMAIN store
    /\ store[last.id].description = StrV(tDesc)
    /\ store[last.id].updated_at # store[last.id].created_at

\* What delete and get answer, and what delete removes.
DeleteAndGet ==
    /\ \A tool_id \in Ids :
         delete_tool(tool_id) =>
           IF tool_id \in DOMAIN store
           THEN /\ last'.status = 204
                /\ store' = [j \in DOMAIN store \ {tool_id} |-> store[j]]
           ELSE last'.status = 404 /\ store' = store
    /\ \A tool_id \in Ids :
         get_tool(tool_id) => (last'.status = 404 <=> tool_id \notin DOMAIN store)

\* C6 as stated: delete of an absent id is a 404 and changes nothing, delete of
\* a stored id is a 204 that removes exactly that row, and every later get of
\* a deleted id is a 404.
DeletedNeverFound ==
    [][/\ DeleteAndGet
       /\ (last'.op = "get" /\ last'.id \in deleted') => last'.status = 404]_vars

\* C6 as amended: the same, except that a deleted id is found again once a
\* later create has been given that id; nothing else brings an id back.
DeletedUntilReused ==
    [][/\ DeleteAndGet
       /\ \A tool_id \in deleted :
            (tool_id \notin DOMAIN store /\ tool_id \in DOMAIN store') =>
              (last'.op = "create" /\ last'.status = 201 /\ last'.id = tool_id)]_vars

\* A get of a deleted id has just answered 404.
DeletedWitness ==
    /\ last.op = "get" /\ last.status = 404
    /\ last.id \in deleted

RaceOneCreatedOneConflict ==
    (/\ \A w \in Workers : pc[w].at = "done"
     /\ \A w \in Workers : Get(pc[w].data, "name") = StrV(tA)
     /\ \A w \in Workers : Truthy(Get(pc[w].data, "category")))
    => /\ \E w \in Workers : \E v \in Workers \ {w} :
             pc[w].status = 201 /\ pc[v].status = 409
       /\ Cardinality({i \in DOMAIN store : store[i].name = StrV(tA)}) = 1
       /\ Cardinality(DOMAIN store)
            = Cardinality({i \in DOMAIN store : store[i].name # StrV(tA)}) + 1

\* C4: in every stored row's full outbound record each of the seven array
\* fields is a sequence, never null and never another kind of value.
ArraysAreSequences ==
    \A id \in DOMAIN store : \A f \in ArrayFields :
        to_dict(id, store[id])[f].t = "list"

----------------------------------------------------------------------------
(* Properties of list and search *)

Max(a, b) == IF a >= b THEN a ELSE b

\* The least m with m * k >= n.
CeilDiv(n, k) == CHOOSE m \in 0..n : m * k >= n /\ (m = 0 \/ (m - 1) * k < n)

\* The number of stored rows a list request's category and search select.
Selected(args) ==
    Cardinality({id \in DOMAIN store :
                   ListFilter(store[id], Arg(args, "category", <<>>), Arg(args, "search", <<>>))})

\* C8: whatever number a list request gives as page size, the size reported
\* and used is between 1 and 100, and a page past the last one is an empty
\* sequence answered with success.
PerPageClamped ==
    (/\ resp.op = "list"
     /\ ToInt(Arg(resp.args, "page", <<"1">>)).ok
     /\ ToInt(Arg(resp.args, "per_page", <<"2", "0">>)).ok)
    => /\ resp.status = 200
       /\ resp.pagination.per_page \in 1..MaxPerPage
       /\ Len(resp.tools) <= MaxPerPage
       /\ resp.pagination.page > resp.pagination.pages => resp.tools = <<>>

\* C9: for page p >= 1 and page size k in 1..100 over N selected rows, the
\* response reports total N and ceil(N / k) pages and carries
\* min(k, max(0, N - (p - 1) * k)) tools.
PaginationCounts ==
    (resp.op = "list" /\ resp.status = 200) =>
      LET p == ToInt(Arg(resp.args, "page", <<"1">>)).n
          k == ToInt(Arg(resp.args, "per_page", <<"2", "0">>)).n
          n == Selected(resp.args)
      IN  (p >= 1 /\ k \in 1..MaxPerPage) =>
            /\ resp.pagination.total = n
            /\ resp.pagination.pages = CeilDiv(n, k)
            /\ Len(resp.tools) = Min(k, Max(0, n - (p - 1) * k))

\* The first page of five of a table of twelve: 5 tools, total 12, 3 pages.
PaginationWitness ==
    /\ resp.op = "list" /\ resp.status = 200
    /\ resp.pagination.page = 1 /\ resp.pagination.per_page = 5
    /\ resp.pagination.total = 12 /\ resp.pagination.pages = 3
    /\ Len(resp.tools) = 5

\* A parameter that was given and is not empty.
Given(args, key) == key \in DOMAIN args /\ args[key] # <<>>

\* The row meets every criterion the request gives; a minimum of 0 is a
\* criterion like any other.
Satisfies(row, args) ==
    /\ Given(args, "q") =>
         \/ ILike(row.name, args["q"])
         \/ ILike(row.description, args["q"])
         \/ ILike(row.features, args["q"])
    /\ Given(args, "category") => ILike(row.category, args["category"])
    /\ (Given(args, "min_maturity") /\ ToInt(args["min_maturity"]).ok) =>
         (row.maturity_score # Null
            /\ row.maturity_score.n >= ToInt(args["min_maturity"]).n)
    /\ (Given(args, "min_popularity") /\ ToInt(args["min_popularity"]).ok) =>
         (row.popularity_score # Null
            /\ row.popularity_score.n >= ToInt(args["min_popularity"]).n)
    /\ (Given(args, "frameworks") /\ Members(Split(args["frameworks"])) # {}) =>
         \E m \in Members(Split(args["frameworks"])) : ILike(row.frameworks, m)
    /\ (Given(args, "languages") /\ Members(Split(args["languages"])) # {}) =>
         \E m \in Members(Split(args["languages"])) : ILike(row.supported_languages, m)

\* C10: search returns exactly the stored rows that meet every criterion
\* given, each once and all of them, and count is their number.
SearchIsConjunction ==
    resp.op = "search" =>
      /\ resp.status = 200
      /\ {resp.tools[i].id.n : i \in 1..Len(resp.tools)}
           = {id \in DOMAIN store : Satisfies(store[id], resp.args)}
      /\ Len(resp.tools) = Cardinality({id \in DOMAIN store : Satisfies(store[id], resp.args)})
      /\ resp.count = Len(resp.tools)

----------------------------------------------------------------------------
(* Properties of the categories *)

\* C11: after any sequence of create, update and delete requests, the
\* categories response holds exactly the non-empty category values of the
\* rows stored at that moment, each once, in ascending order.
CategoriesExact ==
    [][\A w \in Workers :
         (pc[w].op = "categories" /\ pc[w].at = "start" /\ pc'[w].at = "done") =>
           LET c == resp'.categories
           IN  /\ resp'.status = 200
               /\ {c[i] : i \in 1..Len(c)}
                    = {store[id].category : id \in DOMAIN store} \ {StrV(<<>>)}
               /\ \A i \in 1..Len(c) : \A j \in 1..Len(c) :
                    i < j => StrLess(c[i].s, c[j].s)]_vars

\* The categories of a table of three answered after an update had emptied
\* one of them: two names, in ascending order and not in the order of the
\* rows, the table unchanged since.
CategoriesWitness ==
    /\ resp.op = "categories"
    /\ last.op = "update" /\ last.status = 200 /\ last.at < resp.at
    /\ Cardinality(DOMAIN store) = 3
    /\ \E id \in DOMAIN store : store[id].category = StrV(<<>>)
    /\ resp.categories = <<StrV(tA), StrV(tAI)>>
    /\ {store[id].category : id \in DOMAIN store} = {StrV(<<>>), StrV(tA), StrV(tAI)}
    /\ \E i \in DOMAIN store : \E j \in DOMAIN store :
         i < j /\ store[i].category = StrV(tAI) /\ store[j].category = StrV(tA)

----------------------------------------------------------------------------
(* Properties of the scores and of the import *)

ScoreFields == {"maturity_score", "popularity_score"}

\* C12: in every state reached by imports, creates and updates, each stored
\* row's maturity and popularity score is absent or an integer of 1..10.
ScoresInRange ==
    \A id \in DOMAIN store : \A f \in ScoreFields :
        \/ store[id][f] = Null
        \/ (store[id][f].t = "int" /\ store[id][f].n \in 1..10)

\* The score columns of a file and the columns they are stored in.
ScoreColumns == {<<"Maturity Score", "maturity_score">>,
                 <<"Popularity Score", "popularity_score">>}

\* C13: a score cell holding an integer of 1..10 is stored as that integer,
\* one holding any other integer as absent, an empty cell and the sentinel
\* as absent; whatever the cell holds, the import does not fail, the row is
\* stored and its score is absent or in 1..10.
NormalizeScore ==
    resp.op = "import" =>
      LET csv == pc[1].data
      IN  /\ resp.exc = NoError
          /\ DOMAIN store = 1..Len(csv)
          /\ \A i \in 1..Len(csv) : \A c \in ScoreColumns :
               LET cell == Cell(csv[i], c[1])
                   out == store[i][c[2]]
               IN  /\ \A n \in (0 - MaxScoreInput)..MaxScoreInput :
                        cell = StrV(Dec(n)) =>
                          out = IF n \in 1..10 THEN IntV(n) ELSE Null
                   /\ cell \in {StrV(<<>>), StrV(NotSpecified)} => out = Null
                   /\ out = Null \/ out \in {IntV(k) : k \in 1..10}

\* A file whose maturity cell is 10 and whose popularity cell is 11 has been
\* imported: maturity 10, no popularity.
NormalizeScoreWitness ==
    /\ resp.op = "import"
    /\ Cell(pc[1].data[1], "Maturity Score") = StrV(<<"1", "0">>)
    /\ Cell(pc[1].data[1], "Popularity Score") = StrV(<<"1", "1">>)
    /\ store[1].maturity_score = IntV(10)
    /\ store[1].popularity_score = Null

\* The stored text read as a JSON array or, when it is none, as the
\* stripped non-blank pieces between its commas.
ArrayOrPieces(text) ==
    LET r == json_loads(text)
    IN  IF r.ok /\ IsList(r.v) THEN r.v ELSE ListV(StripItems(Split(text)))

\* C14: an array field stored as a text that is not empty and not the
\* sentinel is exposed as the JSON array the text holds or, when it holds
\* none, as the trimmed non-empty pieces between its commas; and normalizing
\* what is exposed once more returns the same sequence.
ArrayFallsBackToPieces ==
    \A id \in DOMAIN store : \A f \in ArrayFields :
        LET raw == store[id][f]
            exposed == to_dict(id, store[id])[f]
        IN  (raw # Null /\ IsStr(raw) /\ raw.s # <<>> /\ raw.s # NotSpecified) =>
              /\ exposed = ArrayOrPieces(raw.s)
              /\ parse_json_field(exposed) = exposed
              /\ parse_json_field(serialize_json_field(exposed)) = exposed

====
